---- MODULE Spec2Model ----
(***************************************************************************)
(* BCPNN synapse parameter compilation (pynn_spinnaker_bcpnn/bcpnn.py).    *)
(*                                                                         *)
(* A caller holds two parameter sets.  Each is translated into native      *)
(* parameters by the `translations` table and then laid out field by field *)
(* following `plasticity_param_map`.  Reals are exact rationals [n, d];    *)
(* d = 0 is the result of a division by zero.                              *)
(***************************************************************************)
EXTENDS Integers, Sequences, FiniteSets, TLC

VARIABLES
    params,              \* params[r]: the parameter set of compilation r
    pc,                  \* "init", "native", "done" or "failed"
    native,              \* the translated parameters
    fields,              \* the fields laid out so far
    offset,              \* the byte offset of the next field
    result,              \* what the caller got back
    err,                 \* the error raised, "none" if none
    encodeCalls,         \* how many converters have been invoked
    used,                \* the PyNN names whose values reached a field
    weight_fixed_point,  \* keyword argument of the layout
    sim_timestep_ms,     \* keyword argument of the layout
    lnShift,             \* input_shift of the ln table being generated
    lnIdx,               \* how many of its sample points exist
    lnX                  \* the latest sample point

vars == <<params, pc, native, fields, offset, result, err, encodeCalls, used,
          weight_fixed_point, sim_timestep_ms, lnShift, lnIdx, lnX>>

pipeVars == <<params, pc, native, fields, offset, result, err, encodeCalls,
              used, weight_fixed_point, sim_timestep_ms>>

lnVars == <<lnShift, lnIdx, lnX>>

(***************************************************************************)
(* Exact rational arithmetic standing for Python floats.                   *)
(***************************************************************************)
Abs(x) == IF x < 0 THEN -x ELSE x

RECURSIVE GCD(_, _)
GCD(a, b) == IF b = 0 THEN a ELSE GCD(b, a % b)

NonFinite == [n |-> 0, d |-> 0]

Rat(n, d) ==
    IF d = 0 THEN NonFinite
    ELSE LET g == GCD(Abs(n), Abs(d))
             s == IF d < 0 THEN -1 ELSE 1
         IN [n |-> s * (n \div g), d |-> s * (d \div g)]

R(i) == [n |-> i, d |-> 1]

IsFinite(x) == x.d # 0

RAdd(x, y) == IF x.d = 0 \/ y.d = 0 THEN NonFinite
              ELSE Rat(x.n * y.d + y.n * x.d, x.d * y.d)

RSub(x, y) == IF x.d = 0 \/ y.d = 0 THEN NonFinite
              ELSE Rat(x.n * y.d - y.n * x.d, x.d * y.d)

RMul(x, y) == IF x.d = 0 \/ y.d = 0 THEN NonFinite
              ELSE LET a == Rat(x.n, y.d)
                       b == Rat(y.n, x.d)
                   IN Rat(a.n * b.n, a.d * b.d)

RDiv(x, y) == IF x.d = 0 \/ y.d = 0 \/ y.n = 0 THEN NonFinite
              ELSE RMul(x, Rat(y.d, y.n))

BoolInt(b) == IF b THEN 1 ELSE 0

None == [none |-> TRUE]

(***************************************************************************)
(* BCPNNSynapse.default_parameters                                         *)
(***************************************************************************)
ParamNames == {"weight", "delay", "tau_zi", "tau_zj", "tau_p", "f_max", "phi",
               "w_max", "weights_enabled", "plasticity_enabled",
               "bias_enabled", "_placeholder1", "_placeholder2"}

default_parameters ==
    [weight |-> R(0), delay |-> None,
     tau_zi |-> R(5), tau_zj |-> R(5), tau_p |-> R(1000),
     f_max |-> R(20), phi |-> Rat(1, 20), w_max |-> R(2),
     weights_enabled |-> TRUE, plasticity_enabled |-> TRUE,
     bias_enabled |-> TRUE,
     _placeholder1 |-> None, _placeholder2 |-> None]

(***************************************************************************)
(* BCPNNSynapse.translations: one row per PyNN parameter.  `refs` are the  *)
(* names the forward transform reads; `formula` tells an explicit formula  *)
(* string from a plain renaming.                                           *)
(***************************************************************************)
translations ==
    << [pynn |-> "weight", native |-> "weight", formula |-> FALSE,
        refs |-> {"weight"}],
       [pynn |-> "delay", native |-> "delay", formula |-> FALSE,
        refs |-> {"delay"}],
       [pynn |-> "tau_zi", native |-> "tau_zi", formula |-> FALSE,
        refs |-> {"tau_zi"}],
       [pynn |-> "tau_zj", native |-> "tau_zj", formula |-> FALSE,
        refs |-> {"tau_zj"}],
       [pynn |-> "tau_p", native |-> "tau_p", formula |-> FALSE,
        refs |-> {"tau_p"}],
       [pynn |-> "f_max", native |-> "a_i", formula |-> TRUE,
        refs |-> {"f_max", "tau_zi", "tau_p"}],
       [pynn |-> "weights_enabled", native |-> "a_j", formula |-> TRUE,
        refs |-> {"f_max", "tau_zj", "tau_p"}],
       [pynn |-> "plasticity_enabled", native |-> "a_ij", formula |-> TRUE,
        refs |-> {"tau_zi", "tau_zj", "f_max", "tau_p"}],
       [pynn |-> "bias_enabled", native |-> "epsilon", formula |-> TRUE,
        refs |-> {"f_max", "tau_p"}],
       [pynn |-> "_placeholder1", native |-> "epsilon_squared",
        formula |-> TRUE, refs |-> {"f_max", "tau_p"}],
       [pynn |-> "phi", native |-> "phi", formula |-> FALSE,
        refs |-> {"phi"}],
       [pynn |-> "w_max", native |-> "w_max", formula |-> FALSE,
        refs |-> {"w_max"}],
       [pynn |-> "_placeholder2", native |-> "mode", formula |-> TRUE,
        refs |-> {"weights_enabled", "plasticity_enabled", "bias_enabled"}] >>

NativeNames == {translations[i].native : i \in DOMAIN translations}

TranslationOf(nn) ==
    translations[CHOOSE i \in DOMAIN translations : translations[i].native = nn]

\* "1000.0 / (f_max * (tau_zi - tau_p))"
a_i(P) == RDiv(R(1000), RMul(P.f_max, RSub(P.tau_zi, P.tau_p)))

\* "1000.0 / (f_max * (tau_zj - tau_p))"
a_j(P) == RDiv(R(1000), RMul(P.f_max, RSub(P.tau_zj, P.tau_p)))

\* "(1000000.0 / (tau_zi + tau_zj)) / ((f_max ** 2) *
\*   ((1.0 / ((1.0 / tau_zi) + (1.0 / tau_zj))) - tau_p))"
a_ij(P) ==
    RDiv(RDiv(R(1000000), RAdd(P.tau_zi, P.tau_zj)),
         RMul(RMul(P.f_max, P.f_max),
              RSub(RDiv(R(1), RAdd(RDiv(R(1), P.tau_zi),
                                   RDiv(R(1), P.tau_zj))),
                   P.tau_p)))

\* "1000.0 / (f_max * tau_p)"
epsilon(P) == RDiv(R(1000), RMul(P.f_max, P.tau_p))

\* epsilon_squared taken from _placeholder1 when the caller set it.
epsilon_squared_from_placeholder(P) ==
    IF P._placeholder1 # None THEN P._placeholder1
    ELSE LET e == RDiv(R(1000), RMul(P.f_max, P.tau_p)) IN RMul(e, e)

\* "(1000.0 / (f_max * tau_p)) ** 2"
epsilon_squared(P) ==
    LET e == RDiv(R(1000), RMul(P.f_max, P.tau_p)) IN RMul(e, e)

\* The mode with bias_enabled weighted 2, like plasticity_enabled.
mode_bias_weighted_2(P) ==
    R(BoolInt(P.weights_enabled) + (BoolInt(P.plasticity_enabled) * 2)
        + (BoolInt(P.bias_enabled) * 2))

\* "weights_enabled + (plasticity_enabled * 2) + (bias_enabled * 4)"
mode(P) ==
    R(BoolInt(P.weights_enabled) + (BoolInt(P.plasticity_enabled) * 2)
        + (BoolInt(P.bias_enabled) * 4))

\* The forward transform of the row whose native name is nn, evaluated on P.
forward_transform(nn, P) ==
    CASE nn = "a_i" -> a_i(P)
      [] nn = "a_j" -> a_j(P)
      [] nn = "a_ij" -> a_ij(P)
      [] nn = "epsilon" -> epsilon(P)
      [] nn = "epsilon_squared" -> epsilon_squared(P)
      [] nn = "mode" -> mode(P)
      [] OTHER -> P[nn]

\* Translation of a whole parameter set.  The formulas are evaluated without
\* any guard: a zero divisor yields a non-finite native value.
translate(P) == [nn \in NativeNames |-> forward_transform(nn, P)]

(***************************************************************************)
(* Fixed-point conversion.  A result is [ok, v, err].                      *)
(***************************************************************************)
Pow2(k) == 2 ^ k

\* Largest integer of a signed n_bits word, written so that no intermediate
\* value leaves the 32-bit range.
MaxWord(n_bits) == ((Pow2(n_bits - 2) - 1) * 2) + 1

MinWord(n_bits) == (-MaxWord(n_bits)) - 1

\* Nearest integer to (n / d) * 2^n_frac, ties away from zero (d > 0).
RoundScaled(n, d, n_frac) ==
    LET a == Abs(n)
        q == a \div d
        r == (a % d) * Pow2(n_frac)
        f == r \div d
        up == IF 2 * (r % d) >= d THEN 1 ELSE 0
        m == (q * Pow2(n_frac)) + f + up
    IN IF n < 0 THEN -m ELSE m

\* LazyArrayFloatToFixConverter(signed = True, n_bits, n_frac, copy = False)
\* applied to one value: a non-finite value cannot be converted, a value
\* outside the word's range is refused.
FloatToFix(n_bits, n_frac, x) ==
    IF ~IsFinite(x) THEN [ok |-> FALSE, v |-> 0, err |-> "ZeroDivisionError"]
    ELSE LET lim == Pow2((n_bits - 1) - n_frac)
         IN IF x.n >= lim * x.d \/ x.n < (-lim) * x.d
            THEN [ok |-> FALSE, v |-> 0, err |-> "RangeError"]
            ELSE LET w == RoundScaled(x.n, x.d, n_frac)
                 IN IF w > MaxWord(n_bits) \/ w < MinWord(n_bits)
                    THEN [ok |-> FALSE, v |-> 0, err |-> "RangeError"]
                    ELSE [ok |-> TRUE, v |-> w, err |-> "none"]

S1813_BITS == 32
S1813_FRAC == 13
S69_BITS == 16
S69_FRAC == 9

\* The s1813 converter built with the S6.9 arguments.
float_to_s1813_built_as_s69(x) == FloatToFix(S69_BITS, S69_FRAC, x)

\* float_to_s1813_no_copy = LazyArrayFloatToFixConverter(True, 32, 13, False)
float_to_s1813_no_copy(x) == FloatToFix(S1813_BITS, S1813_FRAC, x)

\* def s1813(values, **kwargs)
s1813(x) == float_to_s1813_no_copy(x)

\* lazy_param_map.s1615
s1615(x) == FloatToFix(32, 15, x)

\* lazy_param_map.s32_weight_fixed_point(values, weight_fixed_point)
s32_weight_fixed_point(x, wfp) == FloatToFix(32, wfp, x)

\* lazy_param_map.integer
integer(x) ==
    IF ~IsFinite(x) THEN [ok |-> FALSE, v |-> 0, err |-> "ZeroDivisionError"]
    ELSE [ok |-> TRUE, v |-> x.n \div x.d, err |-> "none"]

(***************************************************************************)
(* Lookup tables.  A table is kept as its sampling grid: entry i of a      *)
(* table [fn, n, x0, dx, tau] is fn evaluated at x0 + i * dx (over tau for *)
(* a decay), quantised by the table's converter.                           *)
(***************************************************************************)
\* size = (1 << 13) >> input_shift
LnLutSize(input_shift) == Pow2(S1813_FRAC) \div Pow2(input_shift)

\* np.arange(start, stop, step): start + i * step for every i >= 0 with
\* start + i * step < stop.
ArangeLen(start, stop, step) ==
    LET span == RDiv(RSub(stop, start), step)
        fl == span.n \div span.d
    IN IF span.n <= 0 THEN 0
       ELSE IF fl * span.d = span.n THEN fl ELSE fl + 1

ArangeAt(start, step, i) == RAdd(start, RMul(R(i), step))

\* The ln table sampled up to and including 2.0.
s1813_ln_lut_with_endpoint(input_shift) ==
    LET size == LnLutSize(input_shift)
        step == RDiv(R(1), R(size))
    IN [fn |-> "ln", n |-> ArangeLen(R(1), RAdd(R(2), step), step),
        x0 |-> R(1), dx |-> step, tau |-> R(1),
        bits |-> S1813_BITS, frac |-> S1813_FRAC]

\* def s1813_ln_lut(input_shift)
s1813_ln_lut(input_shift) ==
    LET size == LnLutSize(input_shift)
        step == RDiv(R(1), R(size))
    IN [fn |-> "ln", n |-> ArangeLen(R(1), R(2), step),
        x0 |-> R(1), dx |-> step, tau |-> R(1),
        bits |-> S1813_BITS, frac |-> S1813_FRAC]

\* The x value of entry i of a table.
SamplePoint(t, i) == ArangeAt(t.x0, t.dx, i)

\* lazy_param_map.exp_decay_lut(values, num_entries, time_shift,
\*                              sim_timestep_ms, float_to_fixed)
s69_exp_decay_lut(tau, num_entries, time_shift, timestep) ==
    IF ~IsFinite(tau) THEN [ok |-> FALSE, v |-> 0, err |-> "ZeroDivisionError"]
    ELSE IF tau.n = 0 THEN [ok |-> FALSE, v |-> 0, err |-> "DomainError"]
    ELSE [ok |-> TRUE, err |-> "none",
          v |-> [fn |-> "exp_decay", n |-> num_entries,
                 x0 |-> R(0), dx |-> RMul(timestep, R(Pow2(time_shift))),
                 tau |-> tau, bits |-> S69_BITS, frac |-> S69_FRAC]]

(***************************************************************************)
(* BCPNNSynapse.plasticity_param_map.  A storage format "128i2" is kept as *)
(* [count |-> 128, kind |-> "i", size |-> 2].                              *)
(***************************************************************************)
Fmt(count, kind, size) == [count |-> count, kind |-> kind, size |-> size]

\* A row of the map: the native parameter it reads ("" for a ready-made
\* table), its storage format, its converter and the converter's bound
\* arguments (0 where the converter takes none).
Entry(name, fmt, conv, num_entries, time_shift, input_shift) ==
    [name |-> name, fmt |-> fmt, conv |-> conv, num_entries |-> num_entries,
     time_shift |-> time_shift, input_shift |-> input_shift]

\* The map with the tau_p table and the ln table in each other's place.
plasticity_param_map_tables_swapped ==
    << Entry("a_i", Fmt(1, "i", 4), "s1813", 0, 0, 0),
       Entry("a_j", Fmt(1, "i", 4), "s1813", 0, 0, 0),
       Entry("a_ij", Fmt(1, "i", 4), "s1813", 0, 0, 0),
       Entry("epsilon", Fmt(1, "i", 4), "s1813", 0, 0, 0),
       Entry("epsilon_squared", Fmt(1, "i", 4), "s1813", 0, 0, 0),
       Entry("phi", Fmt(1, "i", 4), "s1615", 0, 0, 0),
       Entry("w_max", Fmt(1, "i", 4), "s32_weight_fixed_point", 0, 0, 0),
       Entry("mode", Fmt(1, "u", 4), "integer", 0, 0, 0),
       Entry("tau_zi", Fmt(128, "i", 2), "s69_exp_decay_lut", 128, 0, 0),
       Entry("tau_zj", Fmt(128, "i", 2), "s69_exp_decay_lut", 128, 0, 0),
       Entry("", Fmt(128, "i", 2), "s1813_ln_lut", 0, 0, 6),
       Entry("tau_p", Fmt(1136, "i", 2), "s69_exp_decay_lut", 1136, 3, 0) >>

plasticity_param_map ==
    << Entry("a_i", Fmt(1, "i", 4), "s1813", 0, 0, 0),
       Entry("a_j", Fmt(1, "i", 4), "s1813", 0, 0, 0),
       Entry("a_ij", Fmt(1, "i", 4), "s1813", 0, 0, 0),
       Entry("epsilon", Fmt(1, "i", 4), "s1813", 0, 0, 0),
       Entry("epsilon_squared", Fmt(1, "i", 4), "s1813", 0, 0, 0),
       Entry("phi", Fmt(1, "i", 4), "s1615", 0, 0, 0),
       Entry("w_max", Fmt(1, "i", 4), "s32_weight_fixed_point", 0, 0, 0),
       Entry("mode", Fmt(1, "u", 4), "integer", 0, 0, 0),
       Entry("tau_zi", Fmt(128, "i", 2), "s69_exp_decay_lut", 128, 0, 0),
       Entry("tau_zj", Fmt(128, "i", 2), "s69_exp_decay_lut", 128, 0, 0),
       Entry("tau_p", Fmt(1136, "i", 2), "s69_exp_decay_lut", 1136, 3, 0),
       Entry("", Fmt(128, "i", 2), "s1813_ln_lut", 0, 0, 6) >>

\* The names compared, phi forgotten.
comparable_param_names_without_phi ==
    <<"tau_zi", "tau_zj", "tau_p", "f_max", "w_max",
      "weights_enabled", "plasticity_enabled", "bias_enabled">>

\* The names compared, weight among them.
comparable_param_names_with_weight ==
    <<"weight", "tau_zi", "tau_zj", "tau_p", "f_max", "phi", "w_max",
      "weights_enabled", "plasticity_enabled", "bias_enabled">>

comparable_param_names ==
    <<"tau_zi", "tau_zj", "tau_p", "f_max", "phi", "w_max",
      "weights_enabled", "plasticity_enabled", "bias_enabled">>

KeyNames == {comparable_param_names[i] : i \in DOMAIN comparable_param_names}

\* The value two synapse types are compared by.
key(P) == [i \in DOMAIN comparable_param_names |-> P[comparable_param_names[i]]]

\* Bytes a storage format occupies in a packed record.
FormatBytes(fmt) == fmt.count * fmt.size

IsLut(e) == e.conv \in {"s69_exp_decay_lut", "s1813_ln_lut"}

\* One entry of the map applied to the native parameters N: the converter's
\* result [ok, v, err]; a scalar's v is its word, a table's v its grid.
ApplyEntry(e, N, wfp, timestep) ==
    CASE e.conv = "s1813_ln_lut" ->
           [ok |-> TRUE, v |-> s1813_ln_lut(e.input_shift), err |-> "none"]
      [] e.name \notin DOMAIN N ->
           [ok |-> FALSE, v |-> 0, err |-> "SchemaError"]
      [] e.conv = "s1813" -> s1813(N[e.name])
      [] e.conv = "s1615" -> s1615(N[e.name])
      [] e.conv = "s32_weight_fixed_point" ->
           s32_weight_fixed_point(N[e.name], wfp)
      [] e.conv = "integer" -> integer(N[e.name])
      [] e.conv = "s69_exp_decay_lut" ->
           s69_exp_decay_lut(N[e.name], e.num_entries, e.time_shift, timestep)

\* Number of elements a converter's value holds.
ValueCount(e, v) == IF IsLut(e) THEN v.n ELSE 1

(***************************************************************************)
(* The inputs.  The first parameter set is the defaults with any flags and *)
(* either tau_zi; the second differs from it in at most MaxDiff names.     *)
(***************************************************************************)
MaxDiff == 3

Runs == {1, 2}

Dom ==
    [weight |-> {R(0), R(1)},
     delay |-> {None, R(1)},
     tau_zi |-> {R(5), R(1000)},
     tau_zj |-> {R(5), R(-5), R(1000)},
     tau_p |-> {R(1000), R(500)},
     f_max |-> {R(20), R(10)},
     phi |-> {Rat(1, 20), R(70000)},
     w_max |-> {R(2), R(1)},
     weights_enabled |-> BOOLEAN,
     plasticity_enabled |-> BOOLEAN,
     bias_enabled |-> BOOLEAN,
     _placeholder1 |-> {None, R(7)},
     _placeholder2 |-> {None, R(7)}]

BaseSets ==
    {[default_parameters EXCEPT !.weights_enabled = w,
                                !.plasticity_enabled = p,
                                !.bias_enabled = b,
                                !.tau_zi = z] :
        w \in BOOLEAN, p \in BOOLEAN, b \in BOOLEAN, z \in Dom.tau_zi}

RECURSIVE Vary(_, _)
Vary(P, m) ==
    IF m = 0 THEN {P}
    ELSE LET prev == Vary(P, m - 1)
         IN prev \cup UNION {{[qn[1] EXCEPT ![qn[2]] = v] : v \in Dom[qn[2]]} :
                              qn \in prev \X ParamNames}

WeightFixedPoints == {15}

Timesteps == {R(1)}

NoDescriptor == <<>>

NoUse == [formula |-> {}, lut |-> {}, direct |-> {}]

PipeStart(P, Q) ==
    /\ params = [r \in Runs |-> IF r = 1 THEN P ELSE Q]
    /\ pc = [r \in Runs |-> "init"]
    /\ native = [r \in Runs |-> <<>>]
    /\ fields = [r \in Runs |-> <<>>]
    /\ offset = [r \in Runs |-> 0]
    /\ result = [r \in Runs |-> NoDescriptor]
    /\ err = [r \in Runs |-> "none"]
    /\ encodeCalls = [r \in Runs |-> 0]
    /\ used = [r \in Runs |-> NoUse]
    /\ weight_fixed_point \in WeightFixedPoints
    /\ sim_timestep_ms \in Timesteps

\* The class body has built its one ln table, s1813_ln_lut(6).
Init ==
    /\ \E P \in BaseSets : \E Q \in Vary(P, MaxDiff) : PipeStart(P, Q)
    /\ lnShift = plasticity_param_map[Len(plasticity_param_map)].input_shift
    /\ lnIdx = 0
    /\ lnX = R(0)

(***************************************************************************)
(* The operations on one compilation.  Calls are synchronous: the second   *)
(* compilation starts when the first has returned.                         *)
(***************************************************************************)
Terminal == {"done", "failed"}

MayRun(r) == r = 1 \/ pc[1] \in Terminal

\* StandardModelType.translate with BCPNNSynapse.translations
Derive(r) ==
    /\ pc[r] = "init"
    /\ MayRun(r)
    /\ native' = [native EXCEPT ![r] = translate(params[r])]
    /\ pc' = [pc EXCEPT ![r] = "native"]
    /\ UNCHANGED <<params, fields, offset, result, err, encodeCalls, used,
                   weight_fixed_point, sim_timestep_ms, lnVars>>

NextEntry(r) == plasticity_param_map[Len(fields[r]) + 1]

Applied(r) ==
    ApplyEntry(NextEntry(r), native[r], weight_fixed_point, sim_timestep_ms)

\* The converter's value fits the field the storage format declares.
Fits(e, res) == res.ok /\ ValueCount(e, res.v) = e.fmt.count

\* The PyNN names an entry's value is computed from, by the way they enter.
UseOf(e) ==
    IF e.name = "" THEN NoUse
    ELSE LET t == TranslationOf(e.name)
         IN [formula |-> IF t.formula /\ ~IsLut(e) THEN t.refs ELSE {},
             lut |-> IF IsLut(e) THEN t.refs ELSE {},
             direct |-> IF ~t.formula /\ ~IsLut(e) THEN t.refs ELSE {}]

AddUse(u, w) ==
    [formula |-> u.formula \cup w.formula, lut |-> u.lut \cup w.lut,
     direct |-> u.direct \cup w.direct]

\* One entry of plasticity_param_map is converted and laid out.
EmitField(r) ==
    /\ pc[r] = "native"
    /\ Len(fields[r]) < Len(plasticity_param_map)
    /\ LET e == NextEntry(r)
           res == Applied(r)
       IN /\ Fits(e, res)
          /\ fields' = [fields EXCEPT ![r] =
                 Append(@, [name |-> e.name, offset |-> offset[r],
                            length |-> FormatBytes(e.fmt), value |-> res.v])]
          /\ offset' = [offset EXCEPT ![r] = @ + FormatBytes(e.fmt)]
          /\ used' = [used EXCEPT ![r] = AddUse(@, UseOf(e))]
    /\ encodeCalls' = [encodeCalls EXCEPT ![r] = @ + 1]
    /\ UNCHANGED <<params, pc, native, result, err,
                   weight_fixed_point, sim_timestep_ms, lnVars>>

\* A failing entry that hands back what was laid out before it.
FailField_returns_partial(r) ==
    /\ pc[r] = "native"
    /\ Len(fields[r]) < Len(plasticity_param_map)
    /\ LET e == NextEntry(r)
           res == Applied(r)
       IN /\ ~Fits(e, res)
          /\ err' = [err EXCEPT ![r] = IF res.ok THEN "ValueError" ELSE res.err]
    /\ pc' = [pc EXCEPT ![r] = "failed"]
    /\ result' = [result EXCEPT ![r] = fields[r]]
    /\ encodeCalls' = [encodeCalls EXCEPT ![r] = @ + 1]
    /\ UNCHANGED <<params, native, fields, offset, used,
                   weight_fixed_point, sim_timestep_ms, lnVars>>

\* The converter of the next entry raises: the layout is abandoned.
FailField(r) ==
    /\ pc[r] = "native"
    /\ Len(fields[r]) < Len(plasticity_param_map)
    /\ LET e == NextEntry(r)
           res == Applied(r)
       IN /\ ~Fits(e, res)
          /\ err' = [err EXCEPT ![r] = IF res.ok THEN "ValueError" ELSE res.err]
    /\ pc' = [pc EXCEPT ![r] = "failed"]
    /\ encodeCalls' = [encodeCalls EXCEPT ![r] = @ + 1]
    /\ UNCHANGED <<params, native, fields, offset, result, used,
                   weight_fixed_point, sim_timestep_ms, lnVars>>

\* Every entry is laid out: the record is returned.
Finish(r) ==
    /\ pc[r] = "native"
    /\ Len(fields[r]) = Len(plasticity_param_map)
    /\ result' = [result EXCEPT ![r] = fields[r]]
    /\ pc' = [pc EXCEPT ![r] = "done"]
    /\ UNCHANGED <<params, native, fields, offset, err, encodeCalls, used,
                   weight_fixed_point, sim_timestep_ms, lnVars>>

Next ==
    \E r \in Runs : Derive(r) \/ EmitField(r) \/ FailField(r) \/ Finish(r)

Spec == Init /\ [][Next]_vars

(***************************************************************************)
(* s1813_ln_lut on its own: the table of any input_shift, one sample point *)
(* of np.arange(1.0, 2.0, 1.0 / size) at a time.                           *)
(***************************************************************************)
InitLn ==
    /\ PipeStart(default_parameters, default_parameters)
    /\ lnShift \in 0..S1813_FRAC
    /\ lnIdx = 0
    /\ lnX = R(0)

LnSample ==
    /\ lnIdx < s1813_ln_lut(lnShift).n
    /\ lnX' = SamplePoint(s1813_ln_lut(lnShift), lnIdx)
    /\ lnIdx' = lnIdx + 1
    /\ UNCHANGED <<lnShift, pipeVars>>

NextLn == LnSample

SpecLn == InitLn /\ [][NextLn]_vars

(***************************************************************************)
(* Properties                                                              *)
(***************************************************************************)
RLess(x, y) == x.n * y.d < y.n * x.d

RLeq(x, y) == x.n * y.d <= y.n * x.d

DiffNames(P, Q) == {n \in ParamNames : P[n] # Q[n]}

Derived(r) == pc[r] # "init"

Flags(P) == <<P.weights_enabled, P.plasticity_enabled, P.bias_enabled>>

\* The translation of a native parameter reads nothing but its refs.
RefsSound ==
    (Derived(1) /\ Derived(2)) =>
        \A i \in DOMAIN translations :
            (\A n \in translations[i].refs : params[1][n] = params[2][n])
                => native[1][translations[i].native]
                     = native[2][translations[i].native]

TypeOK ==
    /\ pc \in [Runs -> {"init", "native", "done", "failed"}]
    /\ \A r \in Runs : /\ Len(fields[r]) <= Len(plasticity_param_map)
                       /\ encodeCalls[r] \in 0..Len(plasticity_param_map)
                       /\ offset[r] >= 0

NumEntries == Len(plasticity_param_map)

\* Sum of the byte lengths of the first k fields laid out by compilation r.
RECURSIVE SumLengths(_, _)
SumLengths(fs, k) == IF k = 0 THEN 0 ELSE SumLengths(fs, k - 1) + fs[k].length

\* A derivation precondition of the formulas is violated.
PreconditionViolated(P) ==
    \/ P.tau_zi = P.tau_p
    \/ P.tau_zj = P.tau_p
    \/ RAdd(P.tau_zi, P.tau_zj) = R(0)

(* C1: the derived mode is weights_enabled + 2*plasticity_enabled +
   4*bias_enabled: it lies in 0..7, two
   parameter sets with different flags get different modes, and all three
   flags true give 7. *)
C1_ModeIsFlagBitmask ==
    /\ \A r \in Runs : Derived(r) =>
          LET P == params[r]
              m == BoolInt(P.weights_enabled) + 2 * BoolInt(P.plasticity_enabled)
                     + 4 * BoolInt(P.bias_enabled)
          IN /\ native[r]["mode"] = R(m)
             /\ native[r]["mode"].n \in 0..7
             /\ Flags(P) = <<TRUE, TRUE, TRUE>> => native[r]["mode"] = R(7)
    /\ (Derived(1) /\ Derived(2) /\ Flags(params[1]) # Flags(params[2]))
          => native[1]["mode"] # native[2]["mode"]

C1_Witness ==
    /\ Derived(1) /\ Derived(2)
    /\ Flags(params[1]) = <<TRUE, TRUE, TRUE>>
    /\ Flags(params[2]) = <<FALSE, FALSE, FALSE>>
    /\ native[1]["mode"] = R(7)
    /\ native[2]["mode"] = R(0)

(* C2: two parameter sets that agree on every name of
   comparable_param_names end their compilations alike: both return the
   same record, field for field, or both fail with the same error, whatever
   weight, delay and the placeholders hold. *)
C2_EqualKeysCompileAlike ==
    (key(params[1]) = key(params[2]) /\ pc[1] \in Terminal /\ pc[2] \in Terminal)
        => /\ pc[1] = pc[2]
           /\ result[1] = result[2]
           /\ err[1] = err[2]

C2_Witness ==
    /\ key(params[1]) = key(params[2])
    /\ DiffNames(params[1], params[2]) = {"weight", "delay", "_placeholder1"}
    /\ pc[1] = "done" /\ pc[2] = "done"
    /\ Len(result[2]) = NumEntries

(* C3 as stated: when a compilation is done, the names that entered it
   through a formula of the translations table or through a lookup table
   are exactly the names of comparable_param_names. *)
C3_KeyIsFormulaAndLutNames ==
    \A r \in Runs : pc[r] = "done" =>
        used[r].formula \cup used[r].lut = KeyNames

(* C3 amended: every name that reaches a laid-out field (through a formula,
   a lookup table or directly as a scalar field) is in
   comparable_param_names, and when a compilation is done the names that
   reached it are exactly comparable_param_names; the names of the key that
   no formula and no lookup table reads are phi and w_max, laid out
   directly. *)
C3_KeyIsExactlyTheNamesLaidOut ==
    \A r \in Runs :
        LET all == used[r].formula \cup used[r].lut \cup used[r].direct
        IN /\ all \subseteq KeyNames
           /\ pc[r] = "done" =>
                 /\ all = KeyNames
                 /\ KeyNames \ (used[r].formula \cup used[r].lut)
                      = {"phi", "w_max"}
                 /\ used[r].direct = {"phi", "w_max"}

C3_Witness ==
    /\ pc[2] = "done"
    /\ used[2].direct = {"phi", "w_max"}
    /\ used[2].lut = {"tau_zi", "tau_zj", "tau_p"}
    /\ "f_max" \in used[2].formula

(* C4 as stated: a compilation whose parameter set has tau_zi = tau_p,
   tau_zj = tau_p or tau_zi + tau_zj = 0 ends with a DomainError raised by
   the derivation, and no converter has been invoked for it. *)
C4_DomainErrorBeforeEncoding ==
    \A r \in Runs :
        (PreconditionViolated(params[r]) /\ pc[r] \in Terminal)
            => /\ pc[r] = "failed"
               /\ err[r] = "DomainError"
               /\ encodeCalls[r] = 0

(* C5: the fields are laid out in the order a_i, a_j, a_ij, epsilon,
   epsilon_squared, phi, w_max, mode, tau_zi table, tau_zj table, tau_p
   table, ln table; the offset of each field is the sum of the lengths of
   the fields before it, so the offsets strictly increase and a field starts
   where the one before it ends. *)
C5_OffsetsAccumulateInMapOrder ==
    \A r \in Runs :
        /\ offset[r] = SumLengths(fields[r], Len(fields[r]))
        /\ \A k \in 1..Len(fields[r]) :
              /\ fields[r][k].name =
                    <<"a_i", "a_j", "a_ij", "epsilon", "epsilon_squared",
                      "phi", "w_max", "mode", "tau_zi", "tau_zj", "tau_p",
                      "">>[k]
              /\ fields[r][k].offset = SumLengths(fields[r], k - 1)
              /\ fields[r][k].length > 0
              /\ k > 1 =>
                    /\ fields[r][k].offset > fields[r][k - 1].offset
                    /\ fields[r][k].offset =
                          fields[r][k - 1].offset + fields[r][k - 1].length

C5_Witness ==
    /\ pc[1] = "done"
    /\ Len(result[1]) = 12
    /\ result[1][12].offset = 2816
    /\ offset[1] = 3072

(* C6: with f_max = 20 and tau_p = 1000 the derived epsilon is 1/20, and
   the epsilon field, the fourth laid out, holds the s1813 word 410. *)
C6_DefaultEpsilonWord ==
    \A r \in Runs :
        (params[r].f_max = R(20) /\ params[r].tau_p = R(1000)) =>
            /\ Derived(r) => native[r]["epsilon"] = Rat(1, 20)
            /\ Len(fields[r]) >= 4 =>
                  /\ fields[r][4].name = "epsilon"
                  /\ fields[r][4].value = 410

C6_Witness ==
    /\ params[1] = default_parameters
    /\ pc[1] = "done"
    /\ result[1][4].value = 410

(* C7 as stated: the table of input_shift holds (1 << 13) >> input_shift
   sample points, the i-th is 1 + i / num_entries, and every sample point x
   has 1 < x and x <= 2. *)
C7_LnSamplesInHalfOpenInterval ==
    lnIdx > 0 =>
        LET size == LnLutSize(lnShift)
        IN /\ s1813_ln_lut(lnShift).n = size
           /\ lnIdx <= size
           /\ lnX = RAdd(R(1), Rat(lnIdx - 1, size))
           /\ RLess(R(1), lnX)
           /\ RLeq(lnX, R(2))

(* C8: a compilation that fails at any entry returns no record, whatever
   it had laid out before the failing entry; a record is returned only by a
   compilation that laid out every entry, and then it is the whole record. *)
C8_NoPartialDescriptor ==
    \A r \in Runs :
        /\ pc[r] = "failed" => (result[r] = NoDescriptor /\ err[r] # "none")
        /\ pc[r] = "native" => result[r] = NoDescriptor
        /\ result[r] # NoDescriptor =>
              /\ pc[r] = "done"
              /\ err[r] = "none"
              /\ Len(result[r]) = NumEntries
              /\ result[r] = fields[r]

C8_Witness ==
    /\ pc[2] = "failed"
    /\ err[2] = "RangeError"
    /\ Len(fields[2]) = 5
    /\ result[2] = NoDescriptor

(* C9: the values of _placeholder1 and _placeholder2 never reach a native
   parameter: parameter sets that differ in nothing else translate to the
   same native parameters, epsilon_squared and mode are fixed by f_max,
   tau_p and the three flags, and epsilon_squared is the square of
   epsilon. *)
C9_PlaceholdersAreNotInputs ==
    /\ \A r \in Runs : Derived(r) =>
          native[r]["epsilon_squared"]
             = RMul(native[r]["epsilon"], native[r]["epsilon"])
    /\ (Derived(1) /\ Derived(2)) =>
          /\ DiffNames(params[1], params[2])
                \subseteq {"_placeholder1", "_placeholder2"}
                => native[1] = native[2]
          /\ (params[1].f_max = params[2].f_max
                /\ params[1].tau_p = params[2].tau_p)
                => native[1]["epsilon_squared"] = native[2]["epsilon_squared"]
          /\ Flags(params[1]) = Flags(params[2])
                => native[1]["mode"] = native[2]["mode"]

C9_Witness ==
    /\ DiffNames(params[1], params[2]) = {"_placeholder1", "_placeholder2"}
    /\ Derived(1) /\ Derived(2)
    /\ native[2]["epsilon_squared"] = Rat(1, 400)

(* C10: every lookup-table entry of plasticity_param_map generates as many
   table entries as its storage format declares (128, 128, 1136 and
   (1 << 13) >> 6 = 128), so no compilation fails on a table that does not
   fit its field, and every table laid out occupies twice its element count
   in bytes. *)
C10_LutSizesMatchFormats ==
    /\ \A k \in DOMAIN plasticity_param_map :
          LET e == plasticity_param_map[k]
          IN /\ e.conv = "s69_exp_decay_lut" => e.num_entries = e.fmt.count
             /\ e.conv = "s1813_ln_lut" =>
                   /\ s1813_ln_lut(e.input_shift).n = e.fmt.count
                   /\ e.fmt.count = 128
    /\ \A r \in Runs :
          /\ err[r] # "ValueError"
          /\ \A k \in 1..Len(fields[r]) :
                IsLut(plasticity_param_map[k]) =>
                   /\ fields[r][k].value.n = plasticity_param_map[k].fmt.count
                   /\ fields[r][k].value.n = <<128, 128, 1136, 128>>[k - 8]
                   /\ fields[r][k].length = 2 * fields[r][k].value.n

C10_Witness ==
    /\ pc[1] = "done"
    /\ result[1][11].value.n = 1136
    /\ result[1][12].value.n = 128
    /\ result[1][12].length = 256

====
